---- MODULE Spec2Model ----
(***************************************************************************)
(* A model of calp: the month-selection parser (src/src/months_parser.rs)  *)
(* and the calendar renderer (src/src/lib.rs).                             *)
(*                                                                         *)
(* Text is a sequence of one-character strings.  A usize read from text is *)
(* kept as its canonical decimal digits, so that the 64-bit range of the   *)
(* parse is exact.                                                         *)
(***************************************************************************)
EXTENDS Integers, Sequences, FiniteSets, TLC

VARIABLES
    pc,          \* the position of the running function
    \* parse_months
    value, range, idx, offset, months, result,
    \* preformat_days
    shown_year, shown_month, days,
    \* load_holiday_file
    file, nread, line, holidays, nadded, info,
    \* run and print_months
    config, today, run_months, show_year, rendered, chunk, out

parserVars == <<value, range, idx, offset, months, result>>
gridVars == <<shown_month, days>>
holidayVars == <<file, nread, line, holidays, nadded, info>>
runVars == <<config, today, run_months, show_year, rendered, chunk, out>>
vars == <<pc, parserVars, shown_year, gridVars, holidayVars, runVars>>

(***************************************************************************)
(* Bounds of the explored inputs.                                          *)
(***************************************************************************)
\* the most segments in a generated selection list
MaxSegs == 3
\* generated segments name the months 1..MaxMonthArg and 12
MaxMonthArg == 3
\* the most lines in a generated holiday file
MaxLines == 2
\* the years a YEAR argument may name (clap's range)
MinYear == 1
MaxYear == 9999

(***************************************************************************)
(* Text helpers.                                                           *)
(***************************************************************************)
Digits == <<"0", "1", "2", "3", "4", "5", "6", "7", "8", "9">>
AsciiDigit == {Digits[i] : i \in 1..10}
\* a decimal digit of another script (ARABIC-INDIC DIGIT THREE): the regex
\* class \d is Unicode-aware and takes it, str::parse::<usize> does not
ForeignDigit == "U+0663"
RegexDigit == AsciiDigit \cup {ForeignDigit}
DigitValue(c) == CHOOSE i \in 0..9 : Digits[i + 1] = c

SetMin(S) == CHOOSE x \in S : \A y \in S : x <= y
Max2(a, b) == IF a >= b THEN a ELSE b
Min2(a, b) == IF a <= b THEN a ELSE b

\* u.to_string() for a small unsigned number
to_string(n) ==
    IF n < 10 THEN <<Digits[n + 1]>>
    ELSE IF n < 100 THEN <<Digits[(n \div 10) + 1], Digits[(n % 10) + 1]>>
    ELSE <<Digits[(n \div 100) + 1], Digits[((n \div 10) % 10) + 1], Digits[(n % 10) + 1]>>

RECURSIVE StripZeros(_)
StripZeros(t) ==
    IF Len(t) > 1 /\ t[1] = "0" THEN StripZeros(Tail(t)) ELSE t

\* usize::MAX of a 64-bit target, in decimal
UsizeMax ==
    <<"1", "8", "4", "4", "6", "7", "4", "4", "0", "7",
      "3", "7", "0", "9", "5", "5", "1", "6", "1", "5">>

\* a > b for canonical digit texts of the same length
DigitsGreater(a, b) ==
    \E i \in 1..Len(a) :
        /\ \A j \in 1..(i - 1) : a[j] = b[j]
        /\ DigitValue(a[i]) > DigitValue(b[i])

\* the value of a canonical digit text of at most two digits
SmallValue(v) ==
    IF Len(v) = 1 THEN DigitValue(v[1])
    ELSE 10 * DigitValue(v[1]) + DigitValue(v[2])

\* (1..=12).contains(&v)
IsMonth(v) == Len(v) <= 2 /\ SmallValue(v) \in 1..12

NoUsize == [ok |-> FALSE, v |-> <<>>]

\* str::parse::<usize>(): ASCII digits only, leading zeros allowed, an Err on
\* overflow
str_parse_usize(t) ==
    IF Len(t) = 0 \/ \E i \in 1..Len(t) : t[i] \notin AsciiDigit THEN NoUsize
    ELSE LET c == StripZeros(t)
         IN IF Len(c) > Len(UsizeMax)
                \/ (Len(c) = Len(UsizeMax) /\ DigitsGreater(c, UsizeMax))
            THEN NoUsize
            ELSE [ok |-> TRUE, v |-> c]

\* str::split(","): the pieces between the commas, empty ones included
RECURSIVE split_comma(_)
split_comma(t) ==
    LET commas == {i \in 1..Len(t) : t[i] = ","}
    IN IF commas = {} THEN <<t>>
       ELSE LET k == SetMin(commas)
            IN <<SubSeq(t, 1, k - 1)>> \o split_comma(SubSeq(t, k + 1, Len(t)))

(***************************************************************************)
(* months_parser.rs                                                        *)
(***************************************************************************)
NoErr == [kind |-> "", a |-> <<>>, b |-> <<>>]
IllegalListValue(ele) == [kind |-> "illegal list value", a |-> ele, b |-> <<>>]
InvalidMonth(text) == [kind |-> "invalid month", a |-> text, b |-> <<>>]
RangeOrder(s, e) == [kind |-> "first month must be lower", a |-> s, b |-> e]

NoRange == [ok |-> FALSE, s |-> <<>>, has_e |-> FALSE, e |-> <<>>]

\* ^(\d+)(-(\d+)){0,1}$ and the two parses of its captures
parse_range(seg) ==
    LET dashes == {i \in 1..Len(seg) : seg[i] = "-"}
        k == IF dashes = {} THEN 0 ELSE SetMin(dashes)
        c1 == IF k = 0 THEN seg ELSE SubSeq(seg, 1, k - 1)
        c3 == IF k = 0 THEN <<>> ELSE SubSeq(seg, k + 1, Len(seg))
        isDigits(t) == Len(t) >= 1 /\ \A i \in 1..Len(t) : t[i] \in RegexDigit
        matched == isDigits(c1) /\ (k = 0 \/ isDigits(c3))
        s == str_parse_usize(c1)
        e == str_parse_usize(c3)
    IN IF ~matched THEN NoRange
       ELSE IF ~s.ok THEN NoRange
       ELSE IF k # 0 /\ ~e.ok THEN NoRange
       ELSE [ok |-> TRUE, s |-> s.v, has_e |-> k # 0, e |-> IF k # 0 THEN e.v ELSE <<>>]

\* the closure with the end of the range validated before its start
segment_range_end_first(ele) ==
    LET r == parse_range(ele)
    IN IF ~r.ok THEN [ok |-> FALSE, start |-> 0, end |-> 0, err |-> IllegalListValue(ele)]
       ELSE IF r.has_e /\ ~IsMonth(r.e)
            THEN [ok |-> FALSE, start |-> 0, end |-> 0, err |-> InvalidMonth(r.e)]
       ELSE IF ~IsMonth(r.s)
            THEN [ok |-> FALSE, start |-> 0, end |-> 0, err |-> InvalidMonth(r.s)]
       ELSE IF r.has_e /\ SmallValue(r.s) >= SmallValue(r.e)
            THEN [ok |-> FALSE, start |-> 0, end |-> 0, err |-> RangeOrder(r.s, r.e)]
       ELSE [ok |-> TRUE, start |-> SmallValue(r.s) - 1,
             end |-> IF r.has_e THEN SmallValue(r.e) ELSE SmallValue(r.s),
             err |-> NoErr]

\* the closure of parse_months applied to one segment: a zero-based half-open
\* range, or the error
segment_range(ele) ==
    LET r == parse_range(ele)
    IN IF ~r.ok THEN [ok |-> FALSE, start |-> 0, end |-> 0, err |-> IllegalListValue(ele)]
       ELSE IF ~IsMonth(r.s)
            THEN [ok |-> FALSE, start |-> 0, end |-> 0, err |-> InvalidMonth(r.s)]
       ELSE IF r.has_e /\ ~IsMonth(r.e)
            THEN [ok |-> FALSE, start |-> 0, end |-> 0, err |-> InvalidMonth(r.e)]
       ELSE IF r.has_e /\ SmallValue(r.s) >= SmallValue(r.e)
            THEN [ok |-> FALSE, start |-> 0, end |-> 0, err |-> RangeOrder(r.s, r.e)]
       ELSE [ok |-> TRUE, start |-> SmallValue(r.s) - 1,
             end |-> IF r.has_e THEN SmallValue(r.e) ELSE SmallValue(r.s),
             err |-> NoErr]

\* .collect::<Result<Vec<_>, _>>(): the ranges, or the first error in order
RECURSIVE collect_ranges(_)
collect_ranges(segs) ==
    IF segs = <<>> THEN [ok |-> TRUE, ranges |-> <<>>, err |-> NoErr]
    ELSE LET h == segment_range(Head(segs))
         IN IF ~h.ok THEN [ok |-> FALSE, ranges |-> <<>>, err |-> h.err]
            ELSE LET t == collect_ranges(Tail(segs))
                 IN IF ~t.ok THEN t
                    ELSE [ok |-> TRUE,
                          ranges |-> <<[start |-> h.start, end |-> h.end]>> \o t.ranges,
                          err |-> NoErr]

\* a.start.cmp(&b.start).then_with(|| a.end.cmp(&b.end)) is not Greater
RangeLeq(a, b) == a.start < b.start \/ (a.start = b.start /\ a.end <= b.end)

RECURSIVE InsertRange(_, _)
InsertRange(r, l) ==
    IF l = <<>> THEN <<r>>
    ELSE IF RangeLeq(Head(l), r) THEN <<Head(l)>> \o InsertRange(r, Tail(l))
    ELSE <<r>> \o l

RECURSIVE sort_month_range_list(_)
sort_month_range_list(l) ==
    IF l = <<>> THEN <<>>
    ELSE InsertRange(l[Len(l)], sort_month_range_list(SubSeq(l, 1, Len(l) - 1)))

m12 == <<1, 2, 3, 4, 5, 6, 7, 8, 9, 10, 11, 12>>

\* the clip taking the running offset alone as the start of the slice
extract_month_from_offset(arr, off, r) ==
    LET s == off
        e == Min2(Len(arr), r.end)
    IN IF s > e THEN [next |-> e, slice |-> <<>>]
       ELSE [next |-> e, slice |-> SubSeq(arr, s + 1, e)]

extract_month(arr, off, r) ==
    LET s == Max2(off, r.start)
        e == Min2(Len(arr), r.end)
    IN IF s > e THEN [next |-> e, slice |-> <<>>]
       ELSE [next |-> e, slice |-> SubSeq(arr, s + 1, e)]

\* the flatten scan as a fold, for callers that take parse_months as a value
RECURSIVE flatten_from(_, _)
flatten_from(off, l) ==
    IF l = <<>> THEN <<>>
    ELSE LET x == extract_month(m12, off, Head(l))
         IN x.slice \o flatten_from(x.next, Tail(l))

parse_months(text) ==
    LET c == collect_ranges(split_comma(text))
    IN IF ~c.ok THEN [ok |-> FALSE, months |-> <<>>, err |-> c.err]
       ELSE [ok |-> TRUE, months |-> flatten_from(0, sort_month_range_list(c.ranges)),
             err |-> NoErr]

(***************************************************************************)
(* Calendar dates.  A NaiveDate is the number of its day, counted from     *)
(* 0001-01-01 as day 1 in the proleptic Gregorian calendar.                *)
(***************************************************************************)
is_leap_year(y) == (y % 4 = 0 /\ y % 100 # 0) \/ y % 400 = 0

DaysBeforeYear(y) ==
    365 * (y - 1) + ((y - 1) \div 4) - ((y - 1) \div 100) + ((y - 1) \div 400)

CumulativeDays == <<0, 31, 59, 90, 120, 151, 181, 212, 243, 273, 304, 334, 365>>

\* days of year y before month m; m = 13 gives the length of the year
DaysBeforeMonth(y, m) ==
    CumulativeDays[m] + (IF m > 2 /\ is_leap_year(y) THEN 1 ELSE 0)

NoDate == [some |-> FALSE, date |-> 0]

\* NaiveDate::from_ymd_opt
from_ymd_opt(y, m, d) ==
    IF m \in 1..12 /\ d >= 1 /\ d <= DaysBeforeMonth(y, m + 1) - DaysBeforeMonth(y, m)
    THEN [some |-> TRUE, date |-> DaysBeforeYear(y) + DaysBeforeMonth(y, m) + d]
    ELSE NoDate

\* NaiveDate::pred_opt, within the supported range of years
pred_opt(date) == [some |-> TRUE, date |-> date - 1]

\* Datelike::year
date_year(date) ==
    LET est == ((date * 400) \div 146097) + 1
    IN CHOOSE y \in (est - 1)..(est + 1) :
           DaysBeforeYear(y) < date /\ date <= DaysBeforeYear(y + 1)

\* Datelike::month
date_month(date) ==
    LET y == date_year(date)
        o == date - DaysBeforeYear(y)
    IN CHOOSE m \in 1..12 : DaysBeforeMonth(y, m) < o /\ o <= DaysBeforeMonth(y, m + 1)

\* Datelike::day
date_day(date) ==
    LET y == date_year(date)
    IN date - DaysBeforeYear(y) - DaysBeforeMonth(y, date_month(date))

\* Datelike::weekday().num_days_from_sunday(): 0001-01-01 is a Monday
num_days_from_sunday(date) == date % 7

(***************************************************************************)
(* lib.rs: the day grid.                                                   *)
(***************************************************************************)
last_day_in_month(year, month) ==
    LET y == IF month = 12 THEN year + 1 ELSE year
        m == IF month = 12 THEN 1 ELSE month + 1
    IN pred_opt(from_ymd_opt(y, m, 1).date).date

\* Vec::splice(a..b, with): the elements a..b (zero-based, half-open) replaced
splice(vec, a, b, with) == SubSeq(vec, 1, a) \o with \o SubSeq(vec, b + 1, Len(vec))

\* the days placed one cell late
preformat_days_shifted(year, month) ==
    LET last == last_day_in_month(year, month)
        first == from_ymd_opt(year, month, 1).date
        first_weekday == num_days_from_sunday(first) + 1
    IN splice([i \in 1..(7 * 6) |-> 0], first_weekday, first_weekday + date_day(last),
              [i \in 1..date_day(last) |-> i])

preformat_days(year, month) ==
    LET last == last_day_in_month(year, month)
        first == from_ymd_opt(year, month, 1).date
        first_weekday == num_days_from_sunday(first)
    IN splice([i \in 1..(7 * 6) |-> 0], first_weekday, first_weekday + date_day(last),
              [i \in 1..date_day(last) |-> i])

(***************************************************************************)
(* lib.rs: HolidayInfo.  A HashMap is a function on the set of its keys;   *)
(* the masks are u32 and only bits 0..30 are ever set (days 1..31).        *)
(***************************************************************************)
RECURSIVE BitOr(_, _)
BitOr(a, b) ==
    IF a = 0 THEN b
    ELSE IF b = 0 THEN a
    ELSE (IF a % 2 = 1 \/ b % 2 = 1 THEN 1 ELSE 0) + 2 * BitOr(a \div 2, b \div 2)

RECURSIVE BitAnd(_, _)
BitAnd(a, b) ==
    IF a = 0 \/ b = 0 THEN 0
    ELSE (IF a % 2 = 1 /\ b % 2 = 1 THEN 1 ELSE 0) + 2 * BitAnd(a \div 2, b \div 2)

\* 1 << n
Shl1(n) == 2 ^ n

EmptyMap == [k \in {} |-> 0]
MapGet(m, k, default) == IF k \in DOMAIN m THEN m[k] ELSE default
MapPut(m, k, v) == [x \in DOMAIN m \cup {k} |-> IF x = k THEN v ELSE m[x]]

\* HolidayInfo::new
HolidayInfo_new == EmptyMap

is_holiday(hi, year, month, day) ==
    LET b == MapGet(MapGet(hi, year, EmptyMap), month, 0)
    IN BitAnd(b, Shl1(day - 1)) # 0

\* the mask assigned instead of or-ed
add_overwriting(hi, date) ==
    LET m == MapGet(hi, date_year(date), EmptyMap)
    IN MapPut(hi, date_year(date), MapPut(m, date_month(date), Shl1(date_day(date) - 1)))

add(hi, date) ==
    LET year == date_year(date)
        month == date_month(date)
        day == date_day(date)
        m == MapGet(hi, year, EmptyMap)
        d == MapGet(m, month, 0)
    IN MapPut(hi, year, MapPut(m, month, BitOr(d, Shl1(day - 1))))

(***************************************************************************)
(* lib.rs: reading one line of the holiday file.                           *)
(***************************************************************************)
\* the longest run of ASCII digits at the head of t, at most max long
RECURSIVE DigitRun(_, _)
DigitRun(t, max) ==
    IF max = 0 \/ t = <<>> \/ Head(t) \notin AsciiDigit THEN <<>>
    ELSE <<Head(t)>> \o DigitRun(Tail(t), max - 1)

RECURSIVE DigitsValue(_)
DigitsValue(t) ==
    IF t = <<>> THEN 0 ELSE 10 * DigitsValue(SubSeq(t, 1, Len(t) - 1)) + DigitValue(t[Len(t)])

\* NaiveDate::parse_from_str(t, "%Y/%m/%d") on unsigned text without blanks:
\* a year of 1 to 4 digits, a month and a day of 1 to 2, nothing after the
\* day, and a date of the calendar
parse_from_str(t) ==
    LET y == DigitRun(t, 4)
        t1 == SubSeq(t, Len(y) + 1, Len(t))
        m == DigitRun(Tail(t1), 2)
        t2 == SubSeq(t1, Len(m) + 2, Len(t1))
        d == DigitRun(Tail(t2), 2)
        t3 == SubSeq(t2, Len(d) + 2, Len(t2))
    IN IF y = <<>> \/ t1 = <<>> \/ Head(t1) # "/" THEN NoDate
       ELSE IF m = <<>> \/ t2 = <<>> \/ Head(t2) # "/" THEN NoDate
       ELSE IF d = <<>> \/ t3 # <<>> THEN NoDate
       ELSE from_ymd_opt(DigitsValue(y), DigitsValue(m), DigitsValue(d))

\* the closure of filter_map with the field taken after the first comma
line_date_second_field(text) ==
    LET fields == split_comma(text)
    IN IF Len(fields) < 2 THEN NoDate ELSE parse_from_str(fields[2])

\* the closure of filter_map: line.split(",").next()? and the parse
line_date(text) == parse_from_str(Head(split_comma(text)))

(***************************************************************************)
(* lib.rs: rendering.  A line of output is a sequence of spans; a span is  *)
(* a piece of text with the style it is painted in.  Names of months and   *)
(* weekdays are kept as single tokens, a centred field keeps its width.    *)
(***************************************************************************)
Span(kind, text, fg, reverse, width) ==
    [kind |-> kind, text |-> text, fg |-> fg, reverse |-> reverse, width |-> width]
Plain(text) == Span("text", text, "none", FALSE, 0)
Space == Plain(<<" ">>)

JAPANESE_LUNAR_MONTH_NAMES ==
    <<"Mutsuki", "Kisaragi", "Yayoi", "Uzuki", "Satsuki", "Minazuki",
      "Fumizuki", "Hazuki", "Nagatsuki", "Kannazuki", "Shimotsuki", "Shiwasu">>
ENGLISH_MONTH_NAMES ==
    <<"January", "February", "March", "April", "May", "June",
      "July", "August", "September", "October", "November", "December">>
JAPANESE_WEEK_NAMES == <<"Nichi", "Getsu", "Ka", "Sui", "Moku", "Kin", "Do">>
ENGLISH_WEEK_NAMES == <<"Su", "Mo", "Tu", "We", "Th", "Fr", "Sa">>

\* i32::to_string for a year of 1..9999
RECURSIVE year_to_string(_)
year_to_string(n) ==
    IF n < 10 THEN <<Digits[n + 1]>>
    ELSE year_to_string(n \div 10) \o <<Digits[(n % 10) + 1]>>

\* [T]::join(sep) for texts
RECURSIVE join(_, _)
join(l, sep) ==
    IF l = <<>> THEN <<>>
    ELSE IF Len(l) = 1 THEN l[1]
    ELSE l[1] \o sep \o join(Tail(l), sep)

YearSuffix(y, show) == IF show THEN <<" ">> \o year_to_string(y) ELSE <<>>

format_header_jp(y, m, show) ==
    <<Span("header",
           to_string(m) \o <<"gatsu", "(", JAPANESE_LUNAR_MONTH_NAMES[m], ")">>
               \o YearSuffix(y, show),
           "none", FALSE, 17),
      Space, Space>>

format_header_en(y, m, show) ==
    <<Span("header", <<ENGLISH_MONTH_NAMES[m]>> \o YearSuffix(y, show), "none", FALSE, 20),
      Space, Space>>

\* format!("{:>2}", d)
pad2(d) == IF d < 10 THEN <<" ">> \o to_string(d) ELSE to_string(d)

\* the weekend colour tested before the holiday colour
format_cell_weekend_first(y, m, i, d, now, hi) ==
    IF d = 0 THEN Plain(<<" ", " ">>)
    ELSE Span("painted", pad2(d),
              IF i = 6 THEN "blue"
              ELSE IF i = 0 \/ is_holiday(hi, y, m, d) THEN "red"
              ELSE "none",
              y = date_year(now) /\ m = date_month(now) /\ d = date_day(now),
              0)

\* one cell of a week row: column i (0..6) holding day d
format_cell(y, m, i, d, now, hi) ==
    IF d = 0 THEN Plain(<<" ", " ">>)
    ELSE Span("painted", pad2(d),
              IF i = 0 \/ is_holiday(hi, y, m, d) THEN "red"
              ELSE IF i = 6 THEN "blue"
              ELSE "none",
              y = date_year(now) /\ m = date_month(now) /\ d = date_day(now),
              0)

format_days(y, m, now, hi) ==
    LET grid == preformat_days(y, m)
        row(r) == [i \in 1..7 |-> <<format_cell(y, m, i - 1, grid[7 * (r - 1) + i], now, hi)>>]
    IN [r \in 1..(Len(grid) \div 7) |-> join(row(r), <<Space>>) \o <<Space, Space>>]

format_month(y, m, show, lang, now, hi) ==
    LET header == IF lang = "ja" THEN format_header_jp(y, m, show)
                  ELSE format_header_en(y, m, show)
        names == IF lang = "ja" THEN JAPANESE_WEEK_NAMES ELSE ENGLISH_WEEK_NAMES
        week_names == <<Span("weeknames", join([i \in 1..7 |-> <<names[i]>>], <<" ">>),
                             "none", FALSE, 0),
                        Space, Space>>
    IN <<header, week_names>> \o format_days(y, m, now, hi)

\* izip!: lines side by side, as many as the shortest month has
izip(ms) ==
    LET n == SetMin({Len(ms[k]) : k \in 1..Len(ms)})
    IN [i \in 1..n |-> join([k \in 1..Len(ms) |-> ms[k][i]], <<>>)]

\* v.chunks(size): the number of chunks and the i-th chunk, i from 0
chunks_count(l, size) == (Len(l) + size - 1) \div size
chunks_nth(l, size, i) == SubSeq(l, size * i + 1, Min2(size * i + size, Len(l)))

\* the lines println! writes for one chunk of print_months
chunk_lines(c) ==
    IF Len(c) = 3 THEN izip(c)
    ELSE IF Len(c) = 2 THEN izip(c)
    ELSE IF Len(c) = 1 THEN c[1]
    ELSE <<>>

\* the blank line written before every chunk, the first one too
chunk_output_blank_always(i, c) == <<<<>>>> \o chunk_lines(c)

\* one turn of the loop over the chunks: the separator, then the lines
chunk_output(i, c) == (IF i > 0 THEN <<<<>>>> ELSE <<>>) \o chunk_lines(c)

\* the year label of print_months
year_label(y, n) ==
    <<Span("year", year_to_string(y), "none", FALSE, IF n = 2 THEN 40 ELSE 60)>>

AllMonths == <<1, 2, 3, 4, 5, 6, 7, 8, 9, 10, 11, 12>>

\* the whole year shown for the flag alone
select_months_flag_only(cfg, now) ==
    IF cfg.cur_year THEN AllMonths
    ELSE IF cfg.months.some THEN cfg.months.v
    ELSE <<date_month(now)>>

\* lines 133-140 of run: the months to show
select_months(cfg, now) ==
    LET show_whole_year == cfg.cur_year \/ (cfg.year.some /\ ~cfg.months.some)
    IN IF show_whole_year THEN AllMonths
       ELSE IF cfg.months.some THEN cfg.months.v
       ELSE <<date_month(now)>>

\* line 135 of run
select_year(cfg, now) == IF cfg.year.some THEN cfg.year.v ELSE date_year(now)

(***************************************************************************)
(* Selection strings handed to the parser.                                 *)
(***************************************************************************)
MonthArgs == (1..MaxMonthArg) \cup {12}

RangeText(s, e) == to_string(s) \o <<"-">> \o to_string(e)

\* well-formed segments over MonthArgs
GoodSegs ==
    {to_string(s) : s \in MonthArgs}
        \cup {RangeText(p[1], p[2]) : p \in {q \in MonthArgs \X MonthArgs : q[1] < q[2]}}

\* numerals of single segments: bounds, leading zeros, the 64-bit limit and
\* one past it, a non-ASCII digit
Numerals ==
    {to_string(0), to_string(1), to_string(5), to_string(12), to_string(13),
     <<"0", "0", "7">>, <<"0", "1", "3">>, <<"0", "0">>,
     UsizeMax, SubSeq(UsizeMax, 1, 19) \o <<"6">>, <<ForeignDigit>>}

Malformed ==
    {<<>>, <<"a">>, <<"1", "-">>, <<"-", "1">>, <<"1", "-", "2", "-", "3">>,
     <<"1", "-", "-", "2">>, <<"1", "a">>, <<" ", "1">>}

OneSegValues ==
    Numerals \cup {a \o <<"-">> \o b : a \in Numerals, b \in Numerals} \cup Malformed

RECURSIVE Join(_)
Join(segs) ==
    IF Len(segs) = 1 THEN segs[1]
    ELSE segs[1] \o <<",">> \o Join(Tail(segs))

SegLists(pool) == UNION {[1..n -> pool] : n \in 1..MaxSegs}

\* lists of well-formed segments, and lists in which one segment is bad
ListValues ==
    {Join(l) : l \in SegLists(GoodSegs)}
        \cup {Join(<<a, b>>) : a \in OneSegValues, b \in {to_string(2), to_string(0), <<"x">>}}
        \cup {Join(<<b, a>>) : a \in Malformed \cup Numerals, b \in {to_string(2), to_string(0)}}

Values == ListValues \cup OneSegValues

(***************************************************************************)
(* Holiday files and command lines handed to the program.                  *)
(***************************************************************************)
RECURSIVE ZeroPad(_, _)
ZeroPad(n, w) == IF w = 0 THEN <<>> ELSE ZeroPad(n \div 10, w - 1) \o <<Digits[(n % 10) + 1]>>

DateField(y, m, d) == ZeroPad(y, 4) \o <<"/">> \o ZeroPad(m, 2) \o <<"/">> \o ZeroPad(d, 2)
Name == <<",", "x">>

HolidayLines ==
    {DateField(2024, 1, 1) \o Name,
     DateField(2024, 1, 1),
     DateField(2024, 1, 31) \o Name \o Name,
     <<"x", ",">> \o DateField(2024, 1, 2),
     <<>>,
     DateField(2024, 2, 30) \o Name,
     ZeroPad(2024, 4) \o <<"-">> \o ZeroPad(1, 2) \o <<"-">> \o ZeroPad(1, 2) \o Name,
     ZeroPad(2024, 4) \o <<"/", "1", "/", "2">> \o Name,
     DateField(2023, 12, 31) \o Name,
     <<",">> \o DateField(2024, 1, 1),
     DateField(2024, 2, 29) \o Name,
     DateField(2024, 1, 1) \o <<"x">> \o Name,
     <<"2">> \o DateField(240, 1, 1) \o Name}

FileOf(arg, home, readable, lines) ==
    [arg |-> arg, home |-> home, readable |-> readable, lines |-> lines]

HolidayFiles ==
    {FileOf(TRUE, TRUE, TRUE, l) :
        l \in UNION {[1..n -> HolidayLines] : n \in 0..MaxLines}}
        \cup {FileOf(FALSE, TRUE, TRUE, <<l>>) : l \in HolidayLines}
        \cup {FileOf(TRUE, TRUE, FALSE, <<>>), FileOf(FALSE, TRUE, FALSE, <<>>),
              FileOf(FALSE, FALSE, FALSE, <<>>)}

RunFiles ==
    {FileOf(FALSE, TRUE, FALSE, <<>>),
     FileOf(TRUE, TRUE, FALSE, <<>>),
     FileOf(FALSE, TRUE, TRUE, <<DateField(2024, 2, 3) \o Name>>),
     FileOf(TRUE, TRUE, TRUE,
            <<DateField(2024, 2, 12) \o Name, DateField(2023, 12, 25), <<"x">>>>)}

RunToday ==
    {from_ymd_opt(2024, 2, 3).date, from_ymd_opt(2024, 2, 11).date,
     from_ymd_opt(2023, 12, 25).date}

None == [some |-> FALSE, v |-> <<>>]
Some(x) == [some |-> TRUE, v |-> x]
NoYear == [some |-> FALSE, v |-> 0]

\* -m values: their parse is what clap stores in Config.months
RunSelections ==
    {to_string(2), Join(<<RangeText(1, 3), to_string(2), to_string(3)>>)}
        \cup {RangeText(1, k) : k \in 2..12}

\* Config::parse(): -y conflicts with -m and with YEAR
Configs ==
    {c \in [months : {None} \cup {Some(parse_months(t).months) : t \in RunSelections},
            year : {NoYear} \cup {[some |-> TRUE, v |-> y] : y \in {2023, 2024}},
            cur_year : BOOLEAN,
            lang : {"ja", "en"}] :
        c.cur_year => (~c.months.some /\ ~c.year.some)}

(***************************************************************************)
(* The state of a function that is not running.                            *)
(***************************************************************************)
NoResult == [ok |-> FALSE, months |-> <<>>, err |-> NoErr]
NoFile == FileOf(FALSE, FALSE, FALSE, <<>>)
NoConfig == [months |-> None, year |-> NoYear, cur_year |-> FALSE, lang |-> "ja"]

IdleParser ==
    /\ value = <<>>
    /\ range = <<>>
    /\ idx = 0
    /\ offset = 0
    /\ months = <<>>
    /\ result = NoResult

IdleGrid ==
    /\ shown_month = 0
    /\ days = <<>>

IdleHoliday ==
    /\ file = NoFile
    /\ nread = 0
    /\ line = <<>>
    /\ holidays = <<>>
    /\ nadded = 0
    /\ info = HolidayInfo_new

IdleRun ==
    /\ config = NoConfig
    /\ today = 0
    /\ run_months = <<>>
    /\ show_year = FALSE
    /\ rendered = <<>>
    /\ chunk = 0
    /\ out = <<>>

(***************************************************************************)
(* parse_months, step by step.                                             *)
(***************************************************************************)
InitParse ==
    /\ pc = "parse"
    /\ value \in Values
    /\ range = <<>>
    /\ idx = 0
    /\ offset = 0
    /\ months = <<>>
    /\ result = NoResult
    /\ shown_year = 0
    /\ IdleGrid
    /\ IdleHoliday
    /\ IdleRun

\* lines 12-45: split, validate every segment, collect
ParseSegments ==
    /\ pc = "parse"
    /\ LET c == collect_ranges(split_comma(value))
       IN \/ /\ c.ok
             /\ range' = c.ranges
             /\ pc' = "sort"
             /\ UNCHANGED result
          \/ /\ ~c.ok
             /\ result' = [ok |-> FALSE, months |-> <<>>, err |-> c.err]
             /\ pc' = "done"
             /\ UNCHANGED range
    /\ UNCHANGED <<value, idx, offset, months, shown_year, gridVars, holidayVars, runVars>>

\* lines 47-49
SortRanges ==
    /\ pc = "sort"
    /\ range' = sort_month_range_list(range)
    /\ offset' = 0
    /\ idx' = 1
    /\ pc' = "scan"
    /\ UNCHANGED <<value, months, result, shown_year, gridVars, holidayVars, runVars>>

\* lines 50-58: one range of the flatten scan
ScanRange ==
    /\ pc = "scan"
    /\ idx <= Len(range)
    /\ LET x == extract_month(m12, offset, range[idx])
       IN /\ offset' = x.next
          /\ months' = months \o x.slice
    /\ idx' = idx + 1
    /\ UNCHANGED <<pc, value, range, result, shown_year, gridVars, holidayVars, runVars>>

\* line 60
ReturnMonths ==
    /\ pc = "scan"
    /\ idx > Len(range)
    /\ result' = [ok |-> TRUE, months |-> months, err |-> NoErr]
    /\ pc' = "done"
    /\ UNCHANGED <<value, range, idx, offset, months, shown_year, gridVars, holidayVars, runVars>>

NextParse == ParseSegments \/ SortRanges \/ ScanRange \/ ReturnMonths

SpecParse == InitParse /\ [][NextParse]_vars

(***************************************************************************)
(* preformat_days on every month of every year a YEAR argument may name.   *)
(***************************************************************************)
InitGrid ==
    /\ pc = "grid"
    /\ shown_year \in MinYear..MaxYear
    /\ shown_month \in 1..12
    /\ days = <<>>
    /\ IdleParser
    /\ IdleHoliday
    /\ IdleRun

BuildGrid ==
    /\ pc = "grid"
    /\ days' = preformat_days(shown_year, shown_month)
    /\ pc' = "done"
    /\ UNCHANGED <<shown_year, shown_month, parserVars, holidayVars, runVars>>

NextGrid == BuildGrid

SpecGrid == InitGrid /\ [][NextGrid]_vars

(***************************************************************************)
(* load_holiday_file, step by step.                                        *)
(***************************************************************************)
InitHoliday ==
    /\ pc = "open"
    /\ file \in HolidayFiles
    /\ nread = 0
    /\ line = <<>>
    /\ holidays = <<>>
    /\ nadded = 0
    /\ info = HolidayInfo_new
    /\ shown_year = 0
    /\ IdleParser
    /\ IdleGrid
    /\ IdleRun

\* lines 151-171: the path, the open, the read
OpenFile ==
    /\ pc = "open"
    /\ \/ /\ ~file.arg
          /\ ~file.home
          /\ pc' = "loaded"
       \/ /\ ~file.arg
          /\ file.home
          /\ ~file.readable
          /\ pc' = "loaded"
       \/ /\ file.arg
          /\ ~file.readable
          /\ pc' = "failed"
       \/ /\ (file.arg \/ file.home)
          /\ file.readable
          /\ pc' = "lines"
    /\ UNCHANGED <<parserVars, shown_year, gridVars, holidayVars, runVars>>

\* lines 182-191: one line through the filter_map
ReadLine ==
    /\ pc = "lines"
    /\ nread < Len(file.lines)
    /\ line' = file.lines[nread + 1]
    /\ nread' = nread + 1
    /\ LET d == line_date(file.lines[nread + 1])
       IN holidays' = IF d.some THEN Append(holidays, d.date) ELSE holidays
    /\ UNCHANGED <<pc, file, nadded, info, parserVars, shown_year, gridVars, runVars>>

\* line 193
EndOfLines ==
    /\ pc = "lines"
    /\ nread = Len(file.lines)
    /\ info' = HolidayInfo_new
    /\ nadded' = 0
    /\ pc' = "add"
    /\ UNCHANGED <<file, nread, line, holidays, parserVars, shown_year, gridVars, runVars>>

\* lines 194-196: one date into the index
AddDate ==
    /\ pc = "add"
    /\ nadded < Len(holidays)
    /\ info' = add(info, holidays[nadded + 1])
    /\ nadded' = nadded + 1
    /\ UNCHANGED <<pc, file, nread, line, holidays, parserVars, shown_year, gridVars, runVars>>

\* line 198
ReturnInfo ==
    /\ pc = "add"
    /\ nadded = Len(holidays)
    /\ pc' = "loaded"
    /\ UNCHANGED <<parserVars, shown_year, gridVars, holidayVars, runVars>>

NextHoliday == OpenFile \/ ReadLine \/ EndOfLines \/ AddDate \/ ReturnInfo

SpecHoliday == InitHoliday /\ [][NextHoliday]_vars

(***************************************************************************)
(* run: the holiday file is loaded, the months are chosen and printed.     *)
(***************************************************************************)
InitRun ==
    /\ pc = "open"
    /\ config \in Configs
    /\ today \in RunToday
    /\ file \in RunFiles
    /\ nread = 0
    /\ line = <<>>
    /\ holidays = <<>>
    /\ nadded = 0
    /\ info = HolidayInfo_new
    /\ shown_year = 0
    /\ run_months = <<>>
    /\ show_year = FALSE
    /\ rendered = <<>>
    /\ chunk = 0
    /\ out = <<>>
    /\ IdleParser
    /\ IdleGrid

\* lines 133-144
SelectMonths ==
    /\ pc = "loaded"
    /\ shown_year' = select_year(config, today)
    /\ run_months' = select_months(config, today)
    /\ show_year' = (Len(select_months(config, today)) = 1)
    /\ pc' = "print"
    /\ UNCHANGED <<config, today, rendered, chunk, out, parserVars, gridVars, holidayVars>>

\* lines 208-219 of print_months: the year label, the months rendered
PrintLabel ==
    /\ pc = "print"
    /\ out' = IF ~show_year THEN <<year_label(shown_year, Len(run_months))>> ELSE <<>>
    /\ rendered' = [k \in 1..Len(run_months) |->
                format_month(shown_year, run_months[k], show_year, config.lang, today, info)]
    /\ chunk' = 0
    /\ pc' = "chunks"
    /\ UNCHANGED <<config, today, shown_year, run_months, show_year, parserVars, gridVars,
                   holidayVars>>

\* lines 220-240: one chunk of up to three months
PrintChunk ==
    /\ pc = "chunks"
    /\ chunk < chunks_count(rendered, 3)
    /\ out' = out \o chunk_output(chunk, chunks_nth(rendered, 3, chunk))
    /\ chunk' = chunk + 1
    /\ UNCHANGED <<pc, config, today, shown_year, run_months, show_year, rendered, parserVars,
                   gridVars, holidayVars>>

\* line 147
ReturnOk ==
    /\ pc = "chunks"
    /\ chunk = chunks_count(rendered, 3)
    /\ pc' = "done"
    /\ UNCHANGED <<parserVars, shown_year, gridVars, holidayVars, runVars>>

NextRun ==
    \/ OpenFile \/ ReadLine \/ EndOfLines \/ AddDate \/ ReturnInfo
    \/ SelectMonths \/ PrintLabel \/ PrintChunk \/ ReturnOk

SpecRun == InitRun /\ [][NextRun]_vars

(***************************************************************************)
(* Claims about the parser.  The helpers below read a selection string the *)
(* way the specification describes it, not the way the code scans it.      *)
(***************************************************************************)
RECURSIVE Zeros(_)
Zeros(n) == IF n = 0 THEN <<>> ELSE <<"0">> \o Zeros(n - 1)

\* the text t is a decimal numeral (ASCII digits) of the number n < 1000
Denotes(t, n) == \E z \in 0..Len(t) : t = Zeros(z) \o to_string(n)

IsNumeral(t) == Len(t) >= 1 /\ \A i \in 1..Len(t) : t[i] \in AsciiDigit

\* the numeral without its leading zeros
Canon(t) ==
    LET k == CHOOSE j \in 1..Len(t) :
                 /\ \A i \in 1..(j - 1) : t[i] = "0"
                 /\ (t[j] # "0" \/ j = Len(t))
    IN SubSeq(t, k, Len(t))

\* the numeral is at most 2^64 - 1
FitsWord(t) ==
    LET c == Canon(t)
    IN \/ Len(c) < 20
       \/ Len(c) = 20 /\ (c = UsizeMax \/ DigitsGreater(UsizeMax, c))

\* the segments of a selection string: the text between neighbouring cuts
SegmentAt(t, a, b) == SubSeq(t, a + 1, b - 1)
Cuts(t) == {0, Len(t) + 1} \cup {i \in 1..Len(t) : t[i] = ","}
SpecSegments(t) ==
    {<<a, SegmentAt(t, a, b)>> : <<a, b>> \in
        {c \in Cuts(t) \X Cuts(t) :
            c[1] < c[2] /\ \A x \in Cuts(t) : ~(c[1] < x /\ x < c[2])}}

\* the grammar \d+ or \d+-\d+, with the two numerals of a matching segment
SegParts(seg) ==
    {p \in {<<seg, <<>>, FALSE>>} \cup
           {<<SubSeq(seg, 1, k - 1), SubSeq(seg, k + 1, Len(seg)), TRUE>> : k \in 1..Len(seg)} :
        /\ IsNumeral(p[1])
        /\ p[3] => (seg[Len(p[1]) + 1] = "-" /\ IsNumeral(p[2]))}
MatchesGrammar(seg) == SegParts(seg) # {}
PartsOf(seg) == CHOOSE p \in SegParts(seg) : TRUE

IsMonthNumeral(t) == \E n \in 1..12 : Denotes(t, n)
MonthOf(t) == CHOOSE n \in 1..12 : Denotes(t, n)

\* the months a well-formed segment covers
SegCovers(seg) ==
    IF ~MatchesGrammar(seg) THEN {}
    ELSE LET p == PartsOf(seg)
         IN IF ~IsMonthNumeral(p[1]) THEN {}
            ELSE IF ~p[3] THEN {MonthOf(p[1])}
            ELSE IF ~IsMonthNumeral(p[2]) THEN {}
            ELSE MonthOf(p[1])..MonthOf(p[2])
Covered(t) == UNION {SegCovers(x[2]) : x \in SpecSegments(t)}

\* the outcome the stated precedence gives one segment: "" for accepted
StatedOutcome(seg) ==
    IF ~MatchesGrammar(seg) THEN IllegalListValue(seg)
    ELSE LET p == PartsOf(seg)
         IN IF ~IsMonthNumeral(p[1]) THEN InvalidMonth(Canon(p[1]))
            ELSE IF p[3] /\ ~IsMonthNumeral(p[2]) THEN InvalidMonth(Canon(p[2]))
            ELSE IF p[3] /\ MonthOf(p[1]) >= MonthOf(p[2])
                 THEN RangeOrder(Canon(p[1]), Canon(p[2]))
            ELSE NoErr

\* the same, a numeral too large for the machine word counting as a format
\* error
WordOutcome(seg) ==
    IF MatchesGrammar(seg)
       /\ (~FitsWord(PartsOf(seg)[1])
           \/ (PartsOf(seg)[3] /\ ~FitsWord(PartsOf(seg)[2])))
    THEN IllegalListValue(seg)
    ELSE StatedOutcome(seg)

\* the outcome of a segment under the stated precedence, or under the one
\* that counts the machine word
Outcome(seg, word) == IF word THEN WordOutcome(seg) ELSE StatedOutcome(seg)

\* the whole parse returns the error of the first failing segment, if any
FirstFailure(t, word) ==
    LET bad == {x \in SpecSegments(t) : Outcome(x[2], word) # NoErr}
    IN IF bad = {} THEN NoErr
       ELSE Outcome((CHOOSE x \in bad : \A y \in bad : x[1] <= y[1])[2], word)

MonthSet(l) == {l[i] : i \in 1..Len(l)}

\* C1: every accepted selection string yields a strictly ascending month list
\* without repeats
C1_StrictlyAscending ==
    (pc = "done" /\ result.ok) =>
        \A i \in 1..(Len(result.months) - 1) : result.months[i] < result.months[i + 1]

\* C2 as stated: each segment's outcome follows the precedence format, s in
\* 1..12, e in 1..12, s < e; the parse returns the first failing segment's error
\* and no months
C2_StatedPrecedence ==
    pc = "done" =>
        LET want == FirstFailure(value, FALSE)
        IN IF want = NoErr THEN result.ok
           ELSE ~result.ok /\ result.err = want /\ result.months = <<>>

\* C2 amended: the same precedence, where a segment that matches the grammar
\* but holds a numeral above 2^64 - 1 fails as a format error
C2_WordPrecedence ==
    pc = "done" =>
        LET want == FirstFailure(value, TRUE)
        IN IF want = NoErr THEN result.ok
           ELSE ~result.ok /\ result.err = want /\ result.months = <<>>

\* a segment whose two numerals are both out of range has been rejected
C2_Witness ==
    /\ pc = "done"
    /\ value = to_string(13) \o <<"-">> \o to_string(0)
    /\ ~result.ok

\* C9: during the flatten scan the running offset never decreases; a range that
\* contributes nothing leaves it unchanged, a contributing range sets it to its
\* effective end
C9_OffsetMonotone ==
    [][(pc = "scan" /\ idx <= Len(range) /\ idx' = idx + 1) =>
          LET es == Max2(offset, range[idx].start)
              ee == Min2(12, range[idx].end)
          IN /\ offset' >= offset
             /\ es > ee => offset' = offset
             /\ es <= ee => offset' = ee]_vars

\* C10: the months of an accepted result are exactly the months its segments
\* cover, and the result is not empty
C10_ExactlyCovered ==
    (pc = "done" /\ result.ok) =>
        /\ MonthSet(result.months) = Covered(value)
        /\ result.months # <<>>

\* an accepted string of three or more segments, two of which cover the same
\* month
C10_Witness ==
    /\ pc = "done"
    /\ result.ok
    /\ Cardinality(SpecSegments(value)) >= 3
    /\ \E x, y \in SpecSegments(value) :
           x # y /\ SegCovers(x[2]) \cap SegCovers(y[2]) # {}

(***************************************************************************)
(* Claims about the day grid.  The calendar is stated here by its rules:   *)
(* the lengths of the months and the weekday by Sakamoto's formula.        *)
(***************************************************************************)
GregorianLeap(y) ==
    IF y % 400 = 0 THEN TRUE ELSE IF y % 100 = 0 THEN FALSE ELSE y % 4 = 0

MonthLength(y, m) ==
    IF m = 2 THEN (IF GregorianLeap(y) THEN 29 ELSE 28)
    ELSE IF m \in {4, 6, 9, 11} THEN 30
    ELSE 31

\* the weekday of a date, Sunday = 0
WeekdayOf(y, m, d) ==
    LET t == <<0, 3, 2, 5, 0, 3, 5, 1, 4, 6, 2, 4>>
        yy == IF m < 3 THEN y - 1 ELSE y
    IN (yy + (yy \div 4) - (yy \div 100) + (yy \div 400) + t[m] + d) % 7

\* C3: the grid has 42 cells; the cells w .. w+L-1 hold 1..L, the others 0,
\* where w is the weekday of the 1st and L the length of the month
C3_GridLayout ==
    pc = "done" =>
        LET w == WeekdayOf(shown_year, shown_month, 1)
            L == MonthLength(shown_year, shown_month)
        IN /\ Len(days) = 42
           /\ \A i \in 0..41 :
                  days[i + 1] = IF w <= i /\ i < w + L THEN i - w + 1 ELSE 0

\* the first case of test_preformat_days: December 2024 starts on a Sunday
C3_Witness ==
    /\ pc = "done"
    /\ shown_year = 2024
    /\ shown_month = 12
    /\ days = [i \in 1..42 |-> IF i <= 31 THEN i ELSE 0]

(***************************************************************************)
(* Claims about the holiday index and the holiday file.                    *)
(***************************************************************************)
QueryYears == 2022..2025

\* the date (y, m, d) is among the dates added so far
WasAdded(y, m, d) ==
    \E k \in 1..nadded :
        from_ymd_opt(y, m, d) = [some |-> TRUE, date |-> holidays[k]]

\* C4: is_holiday(y, m, d), d in 1..31, is true exactly for the dates added;
\* adding a date again leaves the index as it is; a year or month never
\* inserted answers false
C4_IndexHoldsAddedDates ==
    pc \in {"add", "loaded"} =>
        /\ \A y \in QueryYears, m \in 1..12, d \in 1..31 :
               is_holiday(info, y, m, d) <=> WasAdded(y, m, d)
        /\ \A k \in 1..nadded : add(info, holidays[k]) = info

\* the same date has been added twice
C4_Witness ==
    /\ pc = "loaded"
    /\ nadded = 2
    /\ holidays[1] = holidays[2]
    /\ is_holiday(info, date_year(holidays[1]), date_month(holidays[1]), date_day(holidays[1]))

HasComma(l) == \E i \in 1..Len(l) : l[i] = ","
BeforeFirstComma(l) ==
    SubSeq(l, 1, (CHOOSE i \in 1..Len(l) : l[i] = "," /\ \A j \in 1..(i - 1) : l[j] # ",") - 1)

\* the text is year/month/day: three numerals of at most 4, 2 and 2 digits
\* that name a date of the calendar; the result is that date, or <<>>
DateWritten(t) ==
    LET slashes == {i \in 1..Len(t) : t[i] = "/"}
    IN IF Cardinality(slashes) # 2 THEN <<>>
       ELSE LET a == SetMin(slashes)
                b == CHOOSE i \in slashes : i # a
                ys == SubSeq(t, 1, a - 1)
                ms == SubSeq(t, a + 1, b - 1)
                ds == SubSeq(t, b + 1, Len(t))
            IN IF IsNumeral(ys) /\ IsNumeral(ms) /\ IsNumeral(ds)
                  /\ Len(ys) <= 4 /\ Len(ms) <= 2 /\ Len(ds) <= 2
                  /\ DigitsValue(ms) \in 1..12
                  /\ DigitsValue(ds) \in 1..MonthLength(DigitsValue(ys), DigitsValue(ms))
               THEN <<DigitsValue(ys), DigitsValue(ms), DigitsValue(ds)>>
               ELSE <<>>

\* the date a line adds as stated: none for a line without a comma
StatedLineDate(l) == IF HasComma(l) THEN DateWritten(BeforeFirstComma(l)) ELSE <<>>

\* the date a line adds when a line without a comma is read as a whole
FirstFieldDate(l) == DateWritten(IF HasComma(l) THEN BeforeFirstComma(l) ELSE l)

RECURSIVE NonEmpty(_)
NonEmpty(l) ==
    IF l = <<>> THEN <<>>
    ELSE (IF Head(l) = <<>> THEN <<>> ELSE <<Head(l)>>) \o NonEmpty(Tail(l))

\* the dates a sequence of lines adds, in order
DatesOf(ls, whole) ==
    NonEmpty([k \in 1..Len(ls) |->
                 IF whole THEN FirstFieldDate(ls[k]) ELSE StatedLineDate(ls[k])])

Ymd(date) == <<date_year(date), date_month(date), date_day(date)>>

\* C6 as stated: of the lines read, those without a comma and those whose text
\* before the first comma is no date add nothing, every other line adds the
\* date before its first comma; no line aborts the load
C6_StatedLines ==
    (file.readable /\ (file.arg \/ file.home)) =>
        /\ pc # "failed"
        /\ [k \in 1..Len(holidays) |-> Ymd(holidays[k])]
               = DatesOf(SubSeq(file.lines, 1, nread), FALSE)

\* C6 amended: the text read is the text before the first comma, or the whole
\* line when it has no comma
C6_FirstFieldLines ==
    (file.readable /\ (file.arg \/ file.home)) =>
        /\ pc # "failed"
        /\ [k \in 1..Len(holidays) |-> Ymd(holidays[k])]
               = DatesOf(SubSeq(file.lines, 1, nread), TRUE)

\* a line without a comma has added its date, a malformed line nothing
C6_Witness ==
    /\ pc = "loaded"
    /\ nread = 2
    /\ \E k \in 1..2 : ~HasComma(file.lines[k]) /\ FirstFieldDate(file.lines[k]) # <<>>
    /\ \E k \in 1..2 : HasComma(file.lines[k]) /\ FirstFieldDate(file.lines[k]) = <<>>
    /\ Len(holidays) = 1

(***************************************************************************)
(* Claims about run and the printed page.                                  *)
(***************************************************************************)
\* the year and month of today, found by the calendar
TodayIs(y, m) == \E d \in 1..MonthLength(y, m) : from_ymd_opt(y, m, d).date = today
Selected == pc \in {"print", "chunks", "done"}

\* C5 as stated: without a month selection and without the whole-year flag the
\* current month alone is shown, with or without a year argument; without a
\* year argument the year shown is the current year
C5_StatedSelection ==
    Selected =>
        /\ (~config.months.some /\ ~config.cur_year) =>
               /\ Len(run_months) = 1
               /\ \E y \in QueryYears : TodayIs(y, run_months[1])
        /\ ~config.year.some => \E m \in 1..12 : TodayIs(shown_year, m)

\* C5 amended: the current month alone is shown when neither a month selection,
\* nor the whole-year flag, nor a year argument is given; a year argument
\* without a month selection shows the twelve months of that year
C5_Selection ==
    Selected =>
        /\ (~config.months.some /\ ~config.cur_year /\ ~config.year.some) =>
               /\ Len(run_months) = 1
               /\ TodayIs(shown_year, run_months[1])
               /\ pc = "done" => Len(out) = 8
        /\ (~config.months.some /\ ~config.cur_year /\ config.year.some) =>
               /\ run_months = [i \in 1..12 |-> i]
               /\ shown_year = config.year.v
        /\ ~config.year.some => \E m \in 1..12 : TodayIs(shown_year, m)

\* the current month alone has been printed
C5_Witness ==
    /\ pc = "done"
    /\ ~config.months.some
    /\ ~config.cur_year
    /\ ~config.year.some
    /\ Len(run_months) = 1

\* the date (y, m, d) is among the holidays loaded
Flagged(y, m, d) == \E k \in 1..Len(holidays) : holidays[k] = from_ymd_opt(y, m, d).date

\* C7: a non-zero cell in column i with day d is styled holiday if i = 0 or the
\* date is a holiday, else weekend if i = 6, else plain; it is emphasised
\* exactly when the date is today; a zero cell carries no style
C7_CellStyles ==
    pc \in {"chunks", "done"} =>
        \A k \in 1..Len(rendered) :
            LET m == run_months[k]
                grid == preformat_days(shown_year, m)
                now == TodayIs(shown_year, m)
            IN \A r \in 1..6, i \in 0..6 :
                   LET cell == rendered[k][r + 2][2 * i + 1]
                       d == grid[7 * (r - 1) + i + 1]
                   IN IF d = 0
                      THEN cell = Plain(<<" ", " ">>)
                      ELSE /\ cell.text = pad2(d)
                           /\ cell.fg = IF i = 0 \/ Flagged(shown_year, m, d) THEN "red"
                                        ELSE IF i = 6 THEN "blue"
                                        ELSE "none"
                           /\ cell.reverse <=> (now /\ date_day(today) = d)

\* Saturday 2024-02-03 is a holiday and today: its cell is the seventh of the
\* first week row of February
C7_Witness ==
    /\ pc = "done"
    /\ shown_year = 2024
    /\ \E k \in 1..Len(run_months) :
           /\ run_months[k] = 2
           /\ rendered[k][3][13].fg = "red"
           /\ rendered[k][3][13].reverse
           /\ rendered[k][3][13].text = <<" ", "3">>

\* the month a rendered month's header names
HeaderNames(lines, m) ==
    LET text == lines[1][1].text
    IN IF config.lang = "en" THEN text[1] = ENGLISH_MONTH_NAMES[m]
       ELSE SubSeq(text, 1, Len(to_string(m)) + 1) = to_string(m) \o <<"gatsu">>

\* lines side by side
RECURSIVE Beside(_)
Beside(ls) == IF ls = <<>> THEN <<>> ELSE Head(ls) \o Beside(Tail(ls))

\* C8: every rendered month has 8 lines; after the optional year label come
\* ceil(n/3) blocks of 8 lines, one blank line between two blocks and none at
\* the end; line i of block b is line i of the months 3b+1 .. min(3b+3, n) side
\* by side, in the order of the list
C8_PageLayout ==
    (pc = "done" /\ Len(run_months) >= 1) =>
        LET n == Len(run_months)
            lab == IF show_year THEN 0 ELSE 1
            nb == (n + 2) \div 3
        IN /\ Len(rendered) = n
           /\ \A k \in 1..n : Len(rendered[k]) = 8 /\ HeaderNames(rendered[k], run_months[k])
           /\ Len(out) = lab + 8 * nb + (nb - 1)
           /\ lab = 1 => (Len(out[1]) = 1 /\ out[1][1].kind = "year")
           /\ \A b \in 0..(nb - 1) :
                  /\ b > 0 => out[lab + 9 * b] = <<>>
                  /\ \A i \in 1..8 :
                         out[lab + 9 * b + i]
                             = Beside([j \in 1..(Min2(3 * b + 3, n) - 3 * b) |->
                                          rendered[3 * b + j][i]])

\* seven months: two full blocks and a block of one
C8_Witness ==
    /\ pc = "done"
    /\ Len(run_months) = 7
    /\ Len(out) = 27

====
